---- MODULE Spec2Model ----
(***************************************************************************)
(* Model of bot.py: a Discord household-expense bot.  One table, payments, *)
(* in PostgreSQL; six commands (pay, recent, delete, undo, summary, month) *)
(* and a best-effort commentary call to Gemini.                            *)
(*                                                                         *)
(* Time is counted in ticks.  The handler host's clock (datetime.now) and  *)
(* the database server's clock (SQL now()) are two clocks; their offset is *)
(* `skew`.  A handler runs without yielding up to its `await ctx.send`,    *)
(* because every database and Gemini call in bot.py is a blocking call:    *)
(* no other handler runs between the steps of one handler.  delete, undo   *)
(* and month send their message before the finally block that closes their *)
(* connection: while they wait in ctx.send other handlers run.             *)
(***************************************************************************)
EXTENDS Integers, Sequences, FiniteSets, TLC

VARIABLES
    environ,    \* os.getenv values read at import: TOKEN, GEMINI_API_KEY, DATABASE_URL
    proc,       \* "starting" | "running" | "crashed" (ValueError at import)
    payments,   \* the payments table: sequence of rows, row i has id i (SERIAL)
    clock,      \* the handler host's clock, in ticks
    skew,       \* database clock minus handler clock, in ticks
    pc,         \* position of the handler in progress, "idle" when none
    cur,        \* locals of the handler in progress
    reply,      \* outcome of the last finished command: the message sent or the
                \* exception, with what ask_gemini_for_comment did in it and, for a
                \* pay, what month would have reported just before it (history)
    awaiting    \* number of handlers suspended in `await ctx.send` inside their
                \* try block, each with its database connection still open

vars == <<environ, proc, payments, clock, skew, pc, cur, reply, awaiting>>

----------------------------------------------------------------------------
(* Bounds of the model *)

MaxRows == 2          \* rows the table may hold
MaxTime == 4          \* last tick of the handler clock
MaxSkew == 1          \* offset between the two clocks, in ticks, either way
TicksPerSecond == 2   \* resolution of the clocks relative to one second
SecondsPerMonth == 2  \* length of a calendar month
MaxPending == 2       \* handlers that may wait in ctx.send at a time

TicksPerMonth == TicksPerSecond * SecondsPerMonth

None == "None"

\* The arguments of the pay commands that are issued.
PayInputs ==
    { [amount |-> 1, category |-> "food",   payer |-> "joint",   card_type |-> "aeon", shop |-> "big"],
      [amount |-> 2, category |-> "dining", payer |-> "husband", card_type |-> "smbc", shop |-> "mac"] }

\* The limit recent takes when the command gives none.
RecentDefault == 10

\* The limit arguments of the recent commands that are issued.
RecentLimits == {-1, 0, 1, RecentDefault, 51}

\* What gemini_client.models.generate_content can do: raise, block forever,
\* or return a response with no text attribute, with text None, or with a text.
GeminiOutcomes ==
    { [kind |-> "raise",  text |-> << >>],
      [kind |-> "hang",   text |-> << >>],
      [kind |-> "noattr", text |-> << >>],
      [kind |-> "null",   text |-> << >>],
      [kind |-> "text",   text |-> << >>],
      [kind |-> "text",   text |-> <<" ">>],
      [kind |-> "text",   text |-> <<" ", "o", "k", " ">>] }

----------------------------------------------------------------------------
(* Time *)

\* datetime.now(timezone.utc).isoformat(timespec="seconds"): the handler
\* clock cut down to whole seconds.
IsoSeconds(t) == (t \div TicksPerSecond) * TicksPerSecond

\* SQL now() on the database server.
DbNow == clock + skew

\* date_trunc('month', t): the first tick of the month t lies in.
date_trunc_month(t) == (t \div TicksPerMonth) * TicksPerMonth

----------------------------------------------------------------------------
(* The payments table and its queries *)

Ids(table) == 1 .. Len(table)

InsertRow_deleted(table, paid_at, a) ==
    Append(table, [id |-> Len(table) + 1, paid_at |-> paid_at, shop |-> a.shop,
                   amount |-> a.amount, category |-> a.category, payer |-> a.payer,
                   card_type |-> a.card_type, memo |-> "", is_deleted |-> TRUE])

InsertRow_sameid(table, paid_at, a) ==
    Append(table, [id |-> 1, paid_at |-> paid_at, shop |-> a.shop,
                   amount |-> a.amount, category |-> a.category, payer |-> a.payer,
                   card_type |-> a.card_type, memo |-> "", is_deleted |-> FALSE])

InsertRow_uncommitted(table, paid_at, a) == table

\* INSERT INTO payments (...): id from the sequence, is_deleted by default FALSE.
InsertRow(table, paid_at, a) ==
    Append(table, [id |-> Len(table) + 1, paid_at |-> paid_at, shop |-> a.shop,
                   amount |-> a.amount, category |-> a.category, payer |-> a.payer,
                   card_type |-> a.card_type, memo |-> "", is_deleted |-> FALSE])

CloseWithoutCommit_keeps(before, pending) == pending

\* conn.close() in the finally block when the INSERT or the commit raised:
\* the transaction is rolled back, the table is as it was before the handler.
CloseWithoutCommit(before, pending) == before

\* UPDATE payments SET is_deleted = TRUE WHERE id = %s
SoftDelete_hard(table, id) ==
    [i \in 1 .. (Len(table) - 1) |-> IF i < id THEN table[i] ELSE table[i + 1]]

SoftDelete_uncommitted(table, id) == table

SoftDelete_all(table, id) ==
    [i \in 1 .. Len(table) |-> [table[i] EXCEPT !.is_deleted = TRUE]]

SoftDelete(table, id) == [table EXCEPT ![id].is_deleted = TRUE]

\* WHERE is_deleted = FALSE
ActiveIds_all(table) == Ids(table)

ActiveIds(table) == {i \in Ids(table) : table[i].is_deleted = FALSE}

\* The columns recent and undo select.
Listed(r) == [id |-> r.id, paid_at |-> r.paid_at, shop |-> r.shop, amount |-> r.amount,
              category |-> r.category, payer |-> r.payer, card_type |-> r.card_type]

\* ORDER BY paid_at DESC over the active rows: every order of them in which
\* paid_at never increases.  SQL leaves the order of rows with equal paid_at
\* open, so each such order is a result the query can give.
OrderByPaidAtDesc(table) ==
    LET act == ActiveIds(table)
        n   == Cardinality(act)
    IN  {s \in [1 .. n -> act] :
            /\ \A i, j \in 1 .. n : i # j => s[i] # s[j]
            /\ \A i \in 1 .. n - 1 : table[s[i]].paid_at >= table[s[i + 1]].paid_at}

\* LIMIT n
Limit(s, n) == SubSeq(s, 1, IF n < Len(s) THEN n ELSE Len(s))

RECURSIVE SumAmount(_, _)
\* SUM(amount) over the rows of table whose id is in ids
SumAmount(table, ids) ==
    IF ids = {} THEN 0
    ELSE LET i == CHOOSE x \in ids : TRUE
         IN  table[i].amount + SumAmount(table, ids \ {i})

\* WHERE date_trunc('month', paid_at) = date_trunc('month', now()) AND is_deleted = FALSE
MonthIds_anymonth(table, now) == ActiveIds(table)

MonthIds(table, now) ==
    {i \in ActiveIds(table) : date_trunc_month(table[i].paid_at) = date_trunc_month(now)}

\* SELECT COALESCE(SUM(amount), 0) FROM payments WHERE ...
MonthTotal(table, now) == SumAmount(table, MonthIds(table, now))

CategoryGroups_allmonths(table, now) ==
    LET ids == ActiveIds(table)
    IN  { [category |-> c,
           amount   |-> SumAmount(table, {i \in ids : table[i].category = c})] :
          c \in {table[i].category : i \in ids} }

\* GROUP BY category with SUM(amount), over the active rows of the month.
CategoryGroups(table, now) ==
    LET ids == MonthIds(table, now)
    IN  { [category |-> c,
           amount   |-> SumAmount(table, {i \in ids : table[i].category = c})] :
          c \in {table[i].category : i \in ids} }

\* GROUP BY card_type with SUM(amount), over the active rows of the month.
CardGroups(table, now) ==
    LET ids == MonthIds(table, now)
    IN  { [card_type |-> c,
           amount    |-> SumAmount(table, {i \in ids : table[i].card_type = c})] :
          c \in {table[i].card_type : i \in ids} }

\* ORDER BY total DESC: every order of the groups in which the sum never
\* increases (groups with equal sums come in either order).
OrderByTotalDesc(groups) ==
    LET n == Cardinality(groups)
    IN  {s \in [1 .. n -> groups] :
            /\ \A i, j \in 1 .. n : i # j => s[i] # s[j]
            /\ \A i \in 1 .. n - 1 : s[i].amount >= s[i + 1].amount}

\* The results get_month_summary_for_ai can return when its queries succeed.
get_month_summary_for_ai(table, now) ==
    { [total_amount     |-> MonthTotal(table, now),
       category_summary |-> cs,
       card_summary     |-> ks] :
      cs \in OrderByTotalDesc(CategoryGroups(table, now)),
      ks \in OrderByTotalDesc(CardGroups(table, now)) }

EmptySummary == [total_amount |-> 0, category_summary |-> << >>, card_summary |-> << >>]

----------------------------------------------------------------------------
(* The commentary call *)

RECURSIVE LStrip(_)
LStrip(s) == IF s # << >> /\ Head(s) = " " THEN LStrip(Tail(s)) ELSE s

RECURSIVE RStrip(_)
RStrip(s) == IF s # << >> /\ s[Len(s)] = " " THEN RStrip(SubSeq(s, 1, Len(s) - 1)) ELSE s

\* str.strip()
Strip(s) == RStrip(LStrip(s))

\* getattr(response, "text", ""): the attribute, or "" when there is none.
\* isNone tells a text that is None from a string.
GetattrText(response) ==
    IF response.kind = "noattr" THEN [isNone |-> FALSE, val |-> << >>]
    ELSE IF response.kind = "null" THEN [isNone |-> TRUE, val |-> << >>]
    ELSE [isNone |-> FALSE, val |-> response.text]

\* The body of the try block: the remote call, then .strip() on the text.
\* A call that raises, and .strip() on None (AttributeError), both raise.
TryGenerate(outcome) ==
    IF outcome.kind = "raise" THEN [raised |-> TRUE, val |-> << >>]
    ELSE LET t == GetattrText(outcome)
         IN  IF t.isNone THEN [raised |-> TRUE, val |-> << >>]
             ELSE [raised |-> FALSE, val |-> Strip(t.val)]

\* The fixed string returned when GEMINI_API_KEY is None.
NoKeyMessage == <<"n", "o", "k", "e", "y">>

ask_gemini_for_comment_nocatch(key, outcome) ==
    IF key = None
    THEN [raised |-> FALSE, returned |-> NoKeyMessage, calls |-> 0]
    ELSE LET r == TryGenerate(outcome)
         IN  [raised |-> r.raised, returned |-> r.val, calls |-> 1]

\* ask_gemini_for_comment, for a remote call that ends: whether it raises,
\* what it returns, and how many remote calls it made.
ask_gemini_for_comment(key, outcome) ==
    IF key = None
    THEN [raised |-> FALSE, returned |-> NoKeyMessage, calls |-> 0]
    ELSE LET r == TryGenerate(outcome)
         IN  IF r.raised
             THEN [raised |-> FALSE, returned |-> << >>, calls |-> 1]
             ELSE [raised |-> FALSE, returned |-> r.val, calls |-> 1]

----------------------------------------------------------------------------
(* State *)

GEMINI_API_KEY == environ.GEMINI_API_KEY

\* The environments the process is started in: every variable set, or one
\* of them unset (None) or set to the empty string.
Environs ==
    { [TOKEN |-> "t", GEMINI_API_KEY |-> "k", DATABASE_URL |-> "d"],
      [TOKEN |-> None, GEMINI_API_KEY |-> "k", DATABASE_URL |-> "d"],
      [TOKEN |-> "t", GEMINI_API_KEY |-> None, DATABASE_URL |-> "d"],
      [TOKEN |-> "t", GEMINI_API_KEY |-> "", DATABASE_URL |-> "d"],
      [TOKEN |-> "t", GEMINI_API_KEY |-> "k", DATABASE_URL |-> None] }

\* What a database step of a handler can do: succeed, or raise
\* (connect, execute or commit fails; the finally block closes the connection).
DbOutcomes == {"ok", "error"}

NoPayment == [paid_at |-> 0, shop |-> "", amount |-> 0, category |-> "",
              payer |-> "", card_type |-> ""]

NoCur == [latest_payment |-> NoPayment, month_summary |-> EmptySummary,
          prior_total |-> 0, prior_month |-> 0]

NoGemini == [invoked |-> FALSE, failure |-> FALSE, raised |-> FALSE,
             returned |-> << >>, calls |-> 0]

NoReply == [cmd |-> "none", kind |-> "none", committed |-> FALSE, payment |-> NoPayment,
            pid |-> 0, limit_arg |-> 0, limit |-> 0, rows |-> << >>, total |-> 0,
            summary |-> EmptySummary, comment |-> << >>, gemini |-> NoGemini,
            prior_total |-> 0, prior_month |-> 0]

Init ==
    /\ environ \in Environs
    /\ proc = "starting"
    /\ payments = << >>
    /\ clock = 0
    /\ skew \in {-MaxSkew, 0, MaxSkew}
    /\ pc = "idle"
    /\ cur = NoCur
    /\ reply = NoReply
    /\ awaiting = 0

Missing(v) == v = None \/ v = ""

\* Import of the module and __main__: the three variables are validated,
\* a missing one raises ValueError; otherwise init_db() and bot.run().
Startup ==
    /\ proc = "starting"
    /\ proc' = IF Missing(environ.TOKEN) \/ Missing(environ.GEMINI_API_KEY)
                  \/ Missing(environ.DATABASE_URL)
               THEN "crashed" ELSE "running"
    /\ UNCHANGED <<environ, payments, clock, skew, pc, cur, reply, awaiting>>

\* Time passes on both clocks, between two commands (the steps of one
\* handler take no time on the model's clocks).
Tick ==
    /\ proc = "running"
    /\ pc = "idle"
    /\ clock < MaxTime
    /\ clock' = clock + 1
    /\ UNCHANGED <<environ, proc, payments, skew, pc, cur, reply, awaiting>>

Ready == proc = "running" /\ pc = "idle"

Failed(cmd) == [NoReply EXCEPT !.cmd = cmd, !.kind = "error"]

\* delete, undo and month call `await ctx.send` inside their try block: the
\* handler is suspended with its connection open until the send is done.
\* When the database step raised, the finally block has closed the connection.
Suspend(db) == IF db = "ok" THEN awaiting + 1 ELSE awaiting

\* The send of a suspended handler is done: its finally block runs
\* conn.close() and the handler ends.
send_done ==
    /\ Ready
    /\ awaiting > 0
    /\ awaiting' = awaiting - 1
    /\ UNCHANGED <<environ, proc, payments, clock, skew, pc, cur, reply>>

----------------------------------------------------------------------------
(* Command handlers *)

\* pay, lines 189-206: paid_at is stamped from the handler clock, the row is
\* inserted and committed.  A failure of the connection, the INSERT or the
\* commit raises out of the handler and leaves no row.
pay(a, db) ==
    /\ Ready
    /\ Len(payments) < MaxRows
    /\ LET paid_at == IsoSeconds(clock)
       IN  IF db = "ok"
           THEN /\ payments' = InsertRow(payments, paid_at, a)
                /\ cur' = [latest_payment |->
                              [paid_at |-> paid_at, shop |-> a.shop, amount |-> a.amount,
                               category |-> a.category, payer |-> a.payer,
                               card_type |-> a.card_type],
                           month_summary |-> EmptySummary,
                           prior_total |-> MonthTotal(payments, DbNow),
                           prior_month |-> date_trunc_month(DbNow)]
                /\ pc' = "pay_summary"
                /\ UNCHANGED reply
           ELSE /\ payments' = CloseWithoutCommit(payments,
                                                   InsertRow(payments, paid_at, a))
                /\ reply' = Failed("pay")
                /\ UNCHANGED <<cur, pc>>
    /\ UNCHANGED <<environ, proc, clock, skew, awaiting>>

\* pay, line 216: month_summary = get_month_summary_for_ai().  It is called
\* outside any try block: when it raises, the handler ends without a message.
pay_summary(db) ==
    /\ proc = "running"
    /\ pc = "pay_summary"
    /\ IF db = "ok"
       THEN /\ \E ms \in get_month_summary_for_ai(payments, DbNow) :
                  cur' = [cur EXCEPT !.month_summary = ms]
            /\ pc' = "pay_comment"
            /\ UNCHANGED reply
       ELSE /\ reply' = [Failed("pay") EXCEPT !.committed = TRUE,
                                              !.payment = cur.latest_payment,
                                              !.prior_total = cur.prior_total,
                                              !.prior_month = cur.prior_month]
            /\ pc' = "idle"
            /\ cur' = NoCur
    /\ UNCHANGED <<environ, proc, payments, clock, skew, awaiting>>

\* The remote call failed: it raised, or its response has no text
\* attribute, a text that is None, or a text that is empty or blank.
IsFailure(outcome) ==
    \/ outcome.kind \in {"raise", "noattr", "null"}
    \/ outcome.kind = "text" /\ \A i \in 1 .. Len(outcome.text) : outcome.text[i] = " "

\* What a handler does with the commentary: the call blocks forever, or it
\* ends and the handler sends `sent` (or raises, when the call raised).
Comment(outcome, cmd, sent) ==
    IF GEMINI_API_KEY # None /\ outcome.kind = "hang"
    THEN /\ pc' = "hung"
         /\ UNCHANGED <<reply, cur>>
    ELSE LET g   == ask_gemini_for_comment(GEMINI_API_KEY, outcome)
             did == [invoked |-> TRUE, failure |-> IsFailure(outcome), raised |-> g.raised,
                     returned |-> g.returned, calls |-> g.calls]
         IN  /\ reply' = IF g.raised
                         THEN [sent EXCEPT !.kind = "error", !.gemini = did]
                         ELSE [sent EXCEPT !.comment = g.returned, !.gemini = did]
             /\ pc' = "idle"
             /\ cur' = NoCur

\* pay, lines 217-227: the commentary call, then the confirmation message.
pay_comment(outcome) ==
    /\ proc = "running"
    /\ pc = "pay_comment"
    /\ Comment(outcome, "pay",
               [NoReply EXCEPT !.cmd = "pay", !.kind = "confirmed", !.committed = TRUE,
                               !.payment = cur.latest_payment,
                               !.prior_total = cur.prior_total,
                               !.prior_month = cur.prior_month])
    /\ UNCHANGED <<environ, proc, payments, clock, skew, awaiting>>

EffectiveLimit_nocap(limit) ==
    IF limit <= 0 THEN 10 ELSE limit

\* The limit recent uses in its query.
EffectiveLimit(limit) ==
    IF limit <= 0 THEN 10 ELSE IF limit > 50 THEN 50 ELSE limit

\* recent: the active rows, most recently paid first, at most `limit` of them.
recent(limit, db) ==
    /\ Ready
    /\ IF db = "ok"
       THEN \E s \in OrderByPaidAtDesc(payments) :
               LET n    == EffectiveLimit(limit)
                   ids  == Limit(s, n)
                   rows == [i \in 1 .. Len(ids) |-> Listed(payments[ids[i]])]
               IN  reply' = [NoReply EXCEPT !.cmd = "recent",
                                !.kind = IF Len(ids) = 0 THEN "none_found" ELSE "listing",
                                !.limit_arg = limit, !.limit = n, !.rows = rows]
       ELSE reply' = Failed("recent")
    /\ UNCHANGED <<environ, proc, payments, clock, skew, pc, cur, awaiting>>

DeleteLookup_nomissing(table, payment_id) ==
    IF payment_id \notin Ids(table) THEN "already_deleted"
    ELSE IF table[payment_id].is_deleted THEN "already_deleted"
    ELSE "deleted"

DeleteLookup_nocheck(table, payment_id) ==
    IF payment_id \notin Ids(table) THEN "not_found" ELSE "deleted"

\* delete, lines 280-296: the row is looked up by id; no row, or a row that
\* is already deleted, ends the handler with a message and no UPDATE.
DeleteLookup(table, payment_id) ==
    IF payment_id \notin Ids(table) THEN "not_found"
    ELSE IF table[payment_id].is_deleted THEN "already_deleted"
    ELSE "deleted"

\* delete: soft-deletes the row with the given id.  Each of its three
\* messages is sent inside the try block.
delete_payment(payment_id, db) ==
    /\ Ready
    /\ awaiting < MaxPending
    /\ IF db # "ok"
       THEN /\ reply' = [Failed("delete") EXCEPT !.pid = payment_id]
            /\ UNCHANGED payments
       ELSE IF DeleteLookup(payments, payment_id) # "deleted"
       THEN /\ reply' = [NoReply EXCEPT !.cmd = "delete",
                                        !.kind = DeleteLookup(payments, payment_id),
                                        !.pid = payment_id]
            /\ UNCHANGED payments
       ELSE /\ payments' = SoftDelete(payments, payment_id)
            /\ reply' = [NoReply EXCEPT !.cmd = "delete", !.kind = "deleted",
                                        !.pid = payment_id,
                                        !.rows = <<Listed(payments[payment_id])>>]
    /\ awaiting' = Suspend(db)
    /\ UNCHANGED <<environ, proc, clock, skew, pc, cur>>

\* undo: soft-deletes the first active row in paid_at descending order.
undo(db) ==
    /\ Ready
    /\ awaiting < MaxPending
    /\ IF db # "ok"
       THEN /\ reply' = Failed("undo")
            /\ UNCHANGED payments
       ELSE \E s \in OrderByPaidAtDesc(payments) :
               LET row == Limit(s, 1)
               IN  IF row = << >>
                   THEN /\ reply' = [NoReply EXCEPT !.cmd = "undo",
                                                    !.kind = "nothing_to_undo"]
                        /\ UNCHANGED payments
                   ELSE /\ payments' = SoftDelete(payments, row[1])
                        /\ reply' = [NoReply EXCEPT !.cmd = "undo", !.kind = "undone",
                                                    !.pid = row[1],
                                                    !.rows = <<Listed(payments[row[1]])>>]
    /\ awaiting' = Suspend(db)
    /\ UNCHANGED <<environ, proc, clock, skew, pc, cur>>

\* summary, lines 348-371: the month's summary is read and formatted.
summary(db) ==
    /\ Ready
    /\ IF db = "ok"
       THEN /\ \E ms \in get_month_summary_for_ai(payments, DbNow) :
                  cur' = [NoCur EXCEPT !.month_summary = ms]
            /\ pc' = "summary_comment"
            /\ UNCHANGED reply
       ELSE /\ reply' = Failed("summary")
            /\ UNCHANGED <<pc, cur>>
    /\ UNCHANGED <<environ, proc, payments, clock, skew, awaiting>>

\* summary, lines 373-379: the commentary call, then the summary message.
summary_comment(outcome) ==
    /\ proc = "running"
    /\ pc = "summary_comment"
    /\ Comment(outcome, "summary",
               [NoReply EXCEPT !.cmd = "summary", !.kind = "summary",
                               !.total = cur.month_summary.total_amount,
                               !.summary = cur.month_summary])
    /\ UNCHANGED <<environ, proc, payments, clock, skew, awaiting>>

\* month: the total of the current month.
month(db) ==
    /\ Ready
    /\ awaiting < MaxPending
    /\ reply' = IF db = "ok"
                THEN [NoReply EXCEPT !.cmd = "month", !.kind = "month_total",
                                     !.total = MonthTotal(payments, DbNow)]
                ELSE Failed("month")
    /\ awaiting' = Suspend(db)
    /\ UNCHANGED <<environ, proc, payments, clock, skew, pc, cur>>

Next ==
    \/ Startup
    \/ Tick
    \/ \E a \in PayInputs, db \in DbOutcomes : pay(a, db)
    \/ \E db \in DbOutcomes : pay_summary(db)
    \/ \E o \in GeminiOutcomes : pay_comment(o)
    \/ \E n \in RecentLimits, db \in DbOutcomes : recent(n, db)
    \/ \E id \in 1 .. MaxRows + 1, db \in DbOutcomes : delete_payment(id, db)
    \/ \E db \in DbOutcomes : undo(db)
    \/ \E db \in DbOutcomes : summary(db)
    \/ \E o \in GeminiOutcomes : summary_comment(o)
    \/ \E db \in DbOutcomes : month(db)
    \/ send_done

Spec == Init /\ [][Next]_vars

----------------------------------------------------------------------------
(* Vocabulary of the properties, independent of the queries above *)

Min(a, b) == IF a < b THEN a ELSE b

IsActive(i) == payments[i].is_deleted = FALSE

\* The calendar month a tick lies in, as a number.
MonthOf(t) == t \div TicksPerMonth

\* Row i is active and paid in the database's current month.
CountsThisMonth(i) == IsActive(i) /\ MonthOf(payments[i].paid_at) = MonthOf(DbNow)

RECURSIVE AmountUpTo(_, _)
\* The amounts of those rows 1..n that are in S, added up.
AmountUpTo(n, S) ==
    IF n = 0 THEN 0
    ELSE AmountUpTo(n - 1, S) + (IF n \in S THEN payments[n].amount ELSE 0)

\* The rows active and paid in the database's current month.
ThisMonth == {i \in 1 .. Len(payments) : CountsThisMonth(i)}

ExpectedMonthTotal == AmountUpTo(Len(payments), ThisMonth)

RECURSIVE SeqAmount(_)
SeqAmount(s) == IF s = << >> THEN 0 ELSE Head(s).amount + SeqAmount(Tail(s))

\* A step in which the handler of cmd runs from its start to its message
\* (or to the exception that ends it).
StepOf(cmd) ==
    /\ pc = "idle" /\ pc' = "idle" /\ clock' = clock /\ awaiting' >= awaiting
    /\ reply'.cmd = cmd

\* A step in which a command that does not yield before its message finishes.
CommandStep(cmd) == StepOf(cmd) /\ reply'.kind # "error"

----------------------------------------------------------------------------
(* C1 *)

\* C1: every pay command whose INSERT has been committed sends its
\* confirmation message, whatever get_month_summary_for_ai and
\* ask_gemini_for_comment do between the commit and the send: once the
\* handler of a committed pay has ended, the confirmation has been sent.
C1_CommittedPayIsReported ==
    (pc = "idle" /\ reply.cmd = "pay" /\ reply.committed) => reply.kind = "confirmed"

----------------------------------------------------------------------------
(* C2 *)

\* C2: ask_gemini_for_comment never raises to its caller; it returns a
\* string, the empty string in every failure case of the remote call, and
\* makes at most one remote call per invocation.
C2_AskGeminiNeverRaises ==
    reply.gemini.invoked =>
        /\ reply.gemini.raised = FALSE
        /\ reply.gemini.returned \in Seq({" ", "o", "k", "n", "e", "y"})
        /\ reply.gemini.failure => reply.gemini.returned = << >>
        /\ reply.gemini.calls <= 1

C2_Witness ==
    /\ reply.cmd = "summary" /\ reply.kind = "summary"
    /\ reply.gemini.invoked /\ reply.gemini.failure /\ reply.gemini.calls = 1
    /\ reply.gemini.returned = << >>

----------------------------------------------------------------------------
(* C3 *)

\* C3: the payment undo soft-deletes is the payment recent with limit 1
\* lists: when recent 1 has listed a payment and undo runs next, undo
\* deletes the listed payment (also when active payments share a paid_at).
C3_UndoTargetsRecentOne ==
    [][(/\ reply.cmd = "recent" /\ reply.limit = 1 /\ reply.kind = "listing"
        /\ CommandStep("undo") /\ reply'.kind = "undone")
       => reply'.pid = reply.rows[1].id]_vars

----------------------------------------------------------------------------
(* C4 *)

\* C4: recent with effective limit n lists exactly min(n, number of active
\* payments) payments, all active, in descending paid_at order, and no
\* active payment left out was paid later than a listed one.
C4_RecentListsMostRecent ==
    (pc = "idle" /\ reply.cmd = "recent" /\ reply.kind # "error") =>
        LET rows   == reply.rows
            act    == {i \in 1 .. Len(payments) : IsActive(i)}
            listed == {rows[k].id : k \in 1 .. Len(rows)}
        IN  /\ Len(rows) = Min(reply.limit, Cardinality(act))
            /\ Cardinality(listed) = Len(rows)
            /\ listed \subseteq act
            /\ \A k \in 1 .. Len(rows) :
                   /\ rows[k].paid_at = payments[rows[k].id].paid_at
                   /\ rows[k].amount = payments[rows[k].id].amount
                   /\ rows[k].shop = payments[rows[k].id].shop
            /\ \A k \in 1 .. Len(rows) - 1 : rows[k].paid_at >= rows[k + 1].paid_at
            /\ \A i \in act \ listed : \A k \in 1 .. Len(rows) :
                   payments[i].paid_at <= rows[k].paid_at

C4_Witness ==
    /\ pc = "idle" /\ reply.cmd = "recent" /\ reply.kind = "listing"
    /\ reply.limit = 1 /\ Len(reply.rows) = 1
    /\ \E i, j \in 1 .. Len(payments) :
          /\ IsActive(i) /\ IsActive(j)
          /\ payments[i].paid_at < payments[j].paid_at
          /\ reply.rows[1].id = j

----------------------------------------------------------------------------
(* C5 *)

\* C5: a row once inserted is never removed, and its is_deleted flag never
\* goes back from true to false.
C5_NeverRemovedNeverResurrected ==
    [][/\ Len(payments') >= Len(payments)
       /\ \A i \in 1 .. Len(payments) :
             /\ payments'[i].id = payments[i].id
             /\ payments[i].is_deleted => payments'[i].is_deleted]_vars

C5_Witness ==
    /\ reply.cmd = "pay" /\ reply.kind = "confirmed"
    /\ \E i \in 1 .. Len(payments) : payments[i].is_deleted
    /\ \E i \in 1 .. Len(payments) : IsActive(i)

----------------------------------------------------------------------------
(* C6 *)

\* C6: a delete on an id that is already soft-deleted replies 'already
\* deleted' (when the database answers) and leaves the table as it was.
C6_DeleteIdempotent ==
    [][(/\ StepOf("delete")
        /\ reply'.pid \in 1 .. Len(payments)
        /\ payments[reply'.pid].is_deleted)
       => /\ payments' = payments
          /\ reply'.kind \in {"already_deleted", "error"}]_vars

C6_Witness ==
    /\ reply.cmd = "delete" /\ reply.kind = "already_deleted"
    /\ reply.pid \in 1 .. Len(payments) /\ payments[reply.pid].is_deleted

----------------------------------------------------------------------------
(* C7 *)

\* C7: the total month reports is the sum of amount over the payments that
\* are active and paid in the database's current calendar month (0 when
\* there is none).
C7_MonthTotalIsActiveSum ==
    [][(CommandStep("month") /\ reply'.kind = "month_total")
       => reply'.total = ExpectedMonthTotal]_vars

C7_Witness ==
    /\ pc = "idle" /\ reply.cmd = "month" /\ reply.kind = "month_total"
    /\ reply.total = 1
    /\ Len(payments) = 2
    /\ \E i \in 1 .. Len(payments) : ~CountsThisMonth(i)

----------------------------------------------------------------------------
(* C8 *)

\* C8: in every summary get_month_summary_for_ai returns, each category
\* (card) entry is the sum of amount over the active current-month payments
\* of that category (card), the category amounts and the card amounts each
\* add up to total_amount, total_amount is what month would report, and
\* with no such payment the total is 0 and both lists are empty.
C8_SummaryBreakdownAddsUp ==
    (pc \in {"pay_comment", "summary_comment"}) =>
        LET ms == cur.month_summary
            InCategory(c) == AmountUpTo(Len(payments),
                                        {i \in ThisMonth : payments[i].category = c})
            OnCard(c)     == AmountUpTo(Len(payments),
                                        {i \in ThisMonth : payments[i].card_type = c})
        IN  /\ \A k \in 1 .. Len(ms.category_summary) :
                   ms.category_summary[k].amount = InCategory(ms.category_summary[k].category)
            /\ \A k \in 1 .. Len(ms.card_summary) :
                   ms.card_summary[k].amount = OnCard(ms.card_summary[k].card_type)
            /\ SeqAmount(ms.category_summary) = ms.total_amount
            /\ SeqAmount(ms.card_summary) = ms.total_amount
            /\ ms.total_amount = ExpectedMonthTotal
            /\ ms.total_amount = MonthTotal(payments, DbNow)
            /\ (\A i \in 1 .. Len(payments) : ~CountsThisMonth(i)) =>
                   ms = [total_amount |-> 0, category_summary |-> << >>,
                         card_summary |-> << >>]

C8_Witness ==
    /\ pc = "summary_comment"
    /\ cur.month_summary.total_amount > 0
    /\ Len(cur.month_summary.category_summary) = 1
    /\ Len(cur.month_summary.card_summary) = 1
    /\ \E i \in 1 .. Len(payments) : ~CountsThisMonth(i)

----------------------------------------------------------------------------
(* C9 *)

\* The total the next month or summary command reports in this step.
ReportsNext(total) ==
    /\ pc = "idle" /\ clock' = clock
    /\ \/ /\ pc' = "idle" /\ reply'.cmd = "month" /\ reply'.kind = "month_total"
          /\ reply'.total = total
       \/ /\ pc' = "summary_comment"
          /\ cur'.month_summary.total_amount = total

\* C9 as stated: when a pay of amount a commits and month (or summary) runs
\* next, the total reported is the total just before the pay plus a, at
\* whatever time the pay runs.
C9_NextTotalIsPriorPlusAmount ==
    [][(/\ reply.cmd = "pay" /\ reply.kind = "confirmed"
        /\ \E t \in -100 .. 100 : ReportsNext(t))
       => ReportsNext(reply.prior_total + reply.payment.amount)]_vars

\* C9 amended: the same, provided the database's now() is in the same
\* calendar month at the month (or summary) command as just before the pay
\* and the paid_at the handler stamped lies in that month.
C9_NextTotalIsPriorPlusAmountSameMonth ==
    [][(/\ reply.cmd = "pay" /\ reply.committed
        /\ \E t \in -100 .. 100 : ReportsNext(t)
        /\ MonthOf(reply.prior_month) = MonthOf(DbNow)
        /\ MonthOf(reply.payment.paid_at) = MonthOf(DbNow))
       => ReportsNext(reply.prior_total + reply.payment.amount)]_vars

C9_Witness ==
    /\ pc = "idle" /\ reply.cmd = "pay" /\ reply.kind = "confirmed"
    /\ reply.prior_total > 0
    /\ clock > 0
    /\ MonthOf(reply.prior_month) = MonthOf(DbNow)
    /\ MonthOf(reply.payment.paid_at) = MonthOf(DbNow)

----------------------------------------------------------------------------
(* C10 *)

\* C10: with no credential for the remote model configured the system still
\* operates: the process runs its commands, the commentary adapter returns
\* the fixed explanatory string, and no remote call is attempted.
C10_DegradedModeWithoutCredential ==
    (environ.GEMINI_API_KEY = None) =>
        /\ proc # "crashed"
        /\ reply.gemini.invoked =>
              reply.gemini.calls = 0 /\ reply.gemini.returned = NoKeyMessage

----------------------------------------------------------------------------
(* C11 *)

\* C11: a delete given an id for which no row exists replies 'not found'
\* (when the database answers) and leaves the payments table as it was.
C11_DeleteMissingIdNotFound ==
    [][(StepOf("delete") /\ reply'.pid \notin 1 .. Len(payments))
       => /\ payments' = payments
          /\ reply'.kind \in {"not_found", "error"}]_vars

C11_Witness ==
    /\ reply.cmd = "delete" /\ reply.kind = "not_found"
    /\ Len(payments) > 0 /\ reply.pid > Len(payments)

----------------------------------------------------------------------------
(* C12 *)

\* The rows a step soft-deletes.
NewlyDeleted ==
    {i \in 1 .. Len(payments) : IsActive(i) /\ payments'[i].is_deleted}

\* C12: an undo with no active payment replies 'nothing to undo' and
\* changes no row; with at least one active payment it soft-deletes exactly
\* one payment (when the database answers).
C12_UndoNothingOrExactlyOne ==
    [][CommandStep("undo")
       => IF \A i \in 1 .. Len(payments) : ~IsActive(i)
          THEN reply'.kind = "nothing_to_undo" /\ payments' = payments
          ELSE /\ reply'.kind = "undone"
               /\ Len(payments') = Len(payments)
               /\ NewlyDeleted = {reply'.pid}]_vars

C12_Witness ==
    /\ reply.cmd = "undo" /\ reply.kind = "nothing_to_undo"
    /\ Len(payments) > 0
    /\ \A i \in 1 .. Len(payments) : payments[i].is_deleted

----------------------------------------------------------------------------
(* C13 *)

\* C13 as stated: for every integer limit given to recent, the limit used
\* in the query is the input clamped to the closed range [1, 50].
C13_LimitClampedTo1To50 ==
    (reply.cmd = "recent" /\ reply.kind # "error") =>
        reply.limit = (IF reply.limit_arg < 1 THEN 1
                       ELSE IF reply.limit_arg > 50 THEN 50
                       ELSE reply.limit_arg)

\* C13 amended: values above 50 become 50, values in [1, 50] are kept, zero
\* and negative values become 10 (they are not raised to 1), and the limit
\* used is never outside [1, 50].
C13_LimitWithin1To50 ==
    (reply.cmd = "recent" /\ reply.kind # "error") =>
        /\ reply.limit_arg > 50 => reply.limit = 50
        /\ reply.limit_arg \in 1 .. 50 => reply.limit = reply.limit_arg
        /\ reply.limit_arg <= 0 => reply.limit = 10
        /\ reply.limit \in 1 .. 50

C13_Witness ==
    /\ reply.cmd = "recent" /\ reply.kind = "listing"
    /\ reply.limit_arg < 0 /\ reply.limit = 10
    /\ Len(reply.rows) = 2


----------------------------------------------------------------------------
(* C14 *)

\* C14: a connection is opened only for a database operation and is closed on
\* every exit path, so no connection is open while the call to the commentary
\* service is in progress, and none is left once every handler has finished.
C14_NoConnectionDuringCommentary ==
    /\ awaiting \in 0 .. MaxPending
    /\ pc \in {"pay_comment", "summary_comment", "hung"} => awaiting = 0


----------------------------------------------------------------------------
(* C15 *)

\* The rows of the table holding the payment p.
RecordOf(p) ==
    {i \in 1 .. Len(payments) :
        /\ payments[i].paid_at = p.paid_at /\ payments[i].shop = p.shop
        /\ payments[i].amount = p.amount /\ payments[i].category = p.category
        /\ payments[i].payer = p.payer /\ payments[i].card_type = p.card_type}

\* C15: in pay the commentary call starts only after the payment's row is
\* committed, and the call, however it ends (slow, hung, failed), leaves the
\* table as it is; the call is made by pay and summary only.
C15_CommentaryAfterCommit ==
    /\ [](/\ (pc \in {"pay_comment", "hung"} /\ cur.latest_payment # NoPayment)
               => RecordOf(cur.latest_payment) # {}
          /\ reply.gemini.invoked => reply.cmd \in {"pay", "summary"}
          /\ (reply.cmd = "pay" /\ reply.gemini.invoked)
               => RecordOf(reply.payment) # {})
    /\ [][(pc \in {"pay_comment", "summary_comment", "hung"})
            => (payments' = payments)]_vars

\* A pay whose commentary call hangs forever, with its row in the table.
C15_Witness ==
    /\ pc = "hung"
    /\ cur.latest_payment # NoPayment
    /\ \E i \in RecordOf(cur.latest_payment) : IsActive(i)

----------------------------------------------------------------------------
(* C16 *)

\* C16: a pay whose persistence step fails leaves the table unchanged, sends
\* no confirmation and makes no commentary call; a confirmation is sent only
\* for a payment whose row is committed.
C16_FailedPayLeavesNoRecord ==
    /\ [][StepOf("pay")
            => (payments' = payments /\ reply'.kind = "error"
                                     /\ ~reply'.gemini.invoked)]_vars
    /\ []((reply.cmd = "pay" /\ reply.kind = "confirmed")
             => RecordOf(reply.payment) # {})

\* A pay failed in its persistence step after an earlier pay had succeeded.
C16_Witness ==
    /\ reply.cmd = "pay" /\ reply.kind = "error" /\ ~reply.committed
    /\ Len(payments) = 1


----------------------------------------------------------------------------
(* C17 *)

\* C17: handlers interleave at their sends only, and each payment is
\* soft-deleted at most once: a delete or an undo reports a deletion only of a
\* row that was active, that row is deleted from then on, and a delete of a
\* deleted row reports that it is already deleted.
C17_SoftDeletedAtMostOnce ==
    [][/\ ((StepOf("delete") \/ StepOf("undo")) /\ reply'.kind \in {"deleted", "undone"})
            => (/\ reply'.pid \in 1 .. Len(payments)
                /\ IsActive(reply'.pid)
                /\ payments'[reply'.pid].is_deleted)
       /\ (StepOf("delete") /\ reply'.pid \in 1 .. Len(payments)
                             /\ ~IsActive(reply'.pid))
            => (reply'.kind \in {"already_deleted", "error"})
       /\ \A i \in 1 .. Len(payments) :
            ~IsActive(i) => (i <= Len(payments') /\ payments'[i].is_deleted)]_vars

\* A delete reports "already deleted" while the handlers of two earlier
\* commands are still waiting in their sends.
C17_Witness ==
    /\ reply.cmd = "delete" /\ reply.kind = "already_deleted"
    /\ awaiting = 2


----------------------------------------------------------------------------
(* C18 *)

\* The rows a step changes, and whether a change of row i touches no field
\* but is_deleted.
Changed == {i \in 1 .. Len(payments) : i > Len(payments') \/ payments'[i] # payments[i]}

OnlyFlagSet(i) ==
    /\ payments'[i].id = payments[i].id /\ payments'[i].paid_at = payments[i].paid_at
    /\ payments'[i].shop = payments[i].shop /\ payments'[i].amount = payments[i].amount
    /\ payments'[i].category = payments[i].category
    /\ payments'[i].payer = payments[i].payer
    /\ payments'[i].card_type = payments[i].card_type
    /\ payments'[i].memo = payments[i].memo
    /\ payments[i].is_deleted = FALSE /\ payments'[i].is_deleted = TRUE

\* C18: recent, summary and month leave the table unchanged; a successful
\* delete or undo changes the is_deleted flag of exactly one row and nothing
\* else; a successful pay adds exactly one active row with a fresh id and
\* changes no existing row; no other step changes the table.
C18_FrameOfEachCommand ==
    [][/\ (\/ StepOf("recent") \/ StepOf("month") \/ StepOf("summary")
           \/ pc = "summary_comment" \/ pc' = "summary_comment")
            => (payments' = payments)
       /\ ((StepOf("delete") \/ StepOf("undo")) /\ reply'.kind \in {"deleted", "undone"})
            => (/\ Len(payments') = Len(payments)
                /\ Changed = {reply'.pid}
                /\ OnlyFlagSet(reply'.pid))
       /\ (pc = "idle" /\ pc' = "pay_summary")
            => (/\ Len(payments') = Len(payments) + 1
                /\ Changed = {}
                /\ payments'[Len(payments')].is_deleted = FALSE
                /\ \A i \in 1 .. Len(payments) :
                      payments[i].id # payments'[Len(payments')].id
                /\ payments'[Len(payments')].amount = cur'.latest_payment.amount
                /\ payments'[Len(payments')].paid_at = cur'.latest_payment.paid_at
                /\ payments'[Len(payments')].shop = cur'.latest_payment.shop)
       /\ (payments' # payments)
            => (\/ pc = "idle" /\ pc' = "pay_summary"
                \/ (StepOf("delete") \/ StepOf("undo"))
                      /\ reply'.kind \in {"deleted", "undone"})]_vars

\* A delete has succeeded on one of two rows and the other is still active.
C18_Witness ==
    /\ reply.cmd = "delete" /\ reply.kind = "deleted"
    /\ Len(payments) = 2
    /\ payments[reply.pid].is_deleted
    /\ \E i \in 1 .. Len(payments) : IsActive(i)

====
